---- MODULE Spec2Model ----
(***************************************************************************)
(* State-machine model of the GstVorbisEnc element of                      *)
(* ext/vorbis/vorbisenc.c: property surface, format negotiation and        *)
(* backend setup, the header handshake, sample ingestion, the packet drain *)
(* loop, end-of-stream teardown and the element state changes.             *)
(*                                                                         *)
(* GstClockTime / guint64 values are kept as integer representatives of    *)
(* their residue modulo 2^64: a non-negative integer stands for itself and *)
(* a negative integer x stands for 2^64 + x, so GST_CLOCK_TIME_NONE        *)
(* (2^64 - 1) is -1 and an unsigned subtraction that wraps is the negative *)
(* difference.                                                             *)
(***************************************************************************)
EXTENDS Integers, Sequences, FiniteSets, TLC

(***************************************************************************)
(* Program constants                                                       *)
(***************************************************************************)
MAX_BITRATE_DEFAULT == -1
BITRATE_DEFAULT == -1
MIN_BITRATE_DEFAULT == -1
\* quality is kept in tenths: 3 stands for 0.3, -1 for -0.1, 10 for 1.0
QUALITY_DEFAULT == 3
LOWEST_BITRATE == 6000
HIGHEST_BITRATE == 250001
GST_SECOND == 1000000000
GST_CLOCK_TIME_NONE == -1
SIZEOF_FLOAT == 4

(***************************************************************************)
(* Bounds of the model                                                     *)
(***************************************************************************)
\* most packets the backend hands out in one drain
MaxPk == 2
\* largest granule position the backend reaches after one initialisation
MaxGp == 2048
\* caps on the cumulative counters samples_in and bytes_out
MaxSamples == 3
MaxBytes == 6

(***************************************************************************)
(* Input domains                                                           *)
(***************************************************************************)
\* values handed to the three bitrate properties (param spec range
\* -1..HIGHEST_BITRATE)
BitrateInputs == {-1, 4000, 128000}
\* values handed to the quality property, in tenths (range -0.1..1.0)
QualityInputs == {-1, 5}
\* negotiated formats <<channels, rate>> (raw caps: rate 8000..50000,
\* channels 1..2)
Formats == {<<2, 44100>>, <<1, 48000>>}
\* presentation timestamps of incoming buffers, in nanoseconds
Timestamps == {1000000000, 500000017}
\* byte sizes of incoming buffers
BufSizes == {12}
\* granule advance of one backend packet and byte size of a data packet
GpSteps == {0, 1024}
PktSizes == {1}
\* byte sizes of the identification, comment and codebook header packets
HeaderSizes == <<1, 1, 1>>
HeaderKinds == <<"id", "comment", "code">>
\* non-OK results of a downstream push
FailRets == {"WRONG_STATE", "ERROR"}

(***************************************************************************)
(* gst_util_uint64_scale (val, num, denom) = floor (val * num / denom),    *)
(* computed without forming the 64-bit product.  Both helpers return       *)
(* <<quotient, remainder>> of r * n / d for r < d: MulDivBits goes through *)
(* the bits of n, MulDivDigits through its digits in base b, where         *)
(* 2 * d * b <= 2^31.                                                      *)
(***************************************************************************)
RECURSIVE MulDivBits(_, _, _)
MulDivBits(r, n, d) ==
  IF n = 0 THEN <<0, 0>>
  ELSE LET h == MulDivBits(r, n \div 2, d)
           r2 == 2 * h[2]
           c1 == IF r2 >= d THEN 1 ELSE 0
           r3 == r2 - c1 * d
           add == IF n % 2 = 1 THEN r ELSE 0
           c2 == IF r3 >= d - add THEN 1 ELSE 0
           r4 == IF c2 = 1 THEN r3 - (d - add) ELSE r3 + add
       IN <<2 * h[1] + c1 + c2, r4>>

RECURSIVE MulDivDigits(_, _, _, _)
MulDivDigits(r, n, d, b) ==
  IF n = 0 THEN <<0, 0>>
  ELSE LET h == MulDivDigits(r, n \div b, d, b)
           t == h[2] * b + r * (n % b)
       IN <<h[1] * b + (t \div d), t % d>>

MulDiv(r, n, d) ==
  LET b == 1073741824 \div d
  IN IF b >= 2 THEN MulDivDigits(r, n, d, b) ELSE MulDivBits(r, n, d)

gst_util_uint64_scale(val, num, denom) ==
  (val \div denom) * num + MulDiv(val % denom, num, denom)[1]

(***************************************************************************)
(* Granule position / timestamp conversions                                *)
(***************************************************************************)
granulepos_to_timestamp_offset(e, granulepos) ==
  IF granulepos >= 0
  THEN gst_util_uint64_scale(granulepos + e.granulepos_offset, GST_SECOND,
                             e.frequency) + e.subgranule_offset
  ELSE GST_CLOCK_TIME_NONE

\* the conversion of the source pad between "BYTES" and "TIME" through the
\* average bitrate so far; returns <<res, dest_value>>
gst_vorbisenc_convert_src(e, src_format, src_value, dest_format) ==
  IF e.samples_in = 0 \/ e.bytes_out = 0 \/ e.frequency = 0
  THEN <<FALSE, 0>>
  ELSE LET avg == (e.bytes_out * e.frequency) \div e.samples_in
       IN CASE src_format = "BYTES" /\ dest_format = "TIME" ->
                 <<TRUE, gst_util_uint64_scale(src_value, GST_SECOND, avg)>>
            [] src_format = "TIME" /\ dest_format = "BYTES" ->
                 <<TRUE, gst_util_uint64_scale(src_value, avg, GST_SECOND)>>
            [] OTHER -> <<FALSE, 0>>

\* a variant that converts to bytes through the average bitrate
granulepos_to_bytes(e, granulepos) ==
  IF granulepos >= 0
  THEN gst_vorbisenc_convert_src(
         e, "TIME", gst_util_uint64_scale(granulepos, GST_SECOND, e.frequency),
         "BYTES")[2]
  ELSE GST_CLOCK_TIME_NONE

granulepos_to_timestamp(e, granulepos) ==
  IF granulepos >= 0
  THEN gst_util_uint64_scale(granulepos, GST_SECOND, e.frequency)
  ELSE GST_CLOCK_TIME_NONE

(***************************************************************************)
(* The backend handles as libvorbis keeps them.  A handle is either zeroed *)
(* (after allocation of the element or after its clear function) or live;  *)
(* the clear functions free a live handle and zero it, and leave a zeroed  *)
(* handle as it is.                                                        *)
(***************************************************************************)
ZeroVi == [live |-> FALSE, mode |-> "none", hard_min |-> 0, hard_max |-> 0,
           mgmt |-> "none", ready |-> FALSE]
ZeroVd == [live |-> FALSE, gp |-> 0, eos |-> FALSE]
ZeroVb == [live |-> FALSE]

\* every library call and downstream call of the running handler is appended
\* to the handler's call trace w.tr as [c |-> name, a |-> arguments]
Call(w, c, a) == [w EXCEPT !.tr = Append(@, [c |-> c, a |-> a])]

B2N(b) == IF b THEN 1 ELSE 0

vorbis_info_init(w) ==
  [Call(w, "vorbis_info_init", <<B2N(w.enc.vi.live)>>)
     EXCEPT !.enc.vi = [ZeroVi EXCEPT !.live = TRUE]]

vorbis_info_clear(w) ==
  [Call(w, "vorbis_info_clear", <<B2N(w.enc.vi.live)>>)
     EXCEPT !.enc.vi = ZeroVi]

vorbis_dsp_clear(w) ==
  [Call(w, "vorbis_dsp_clear", <<B2N(w.enc.vd.live)>>)
     EXCEPT !.enc.vd = ZeroVd]

vorbis_block_clear(w) ==
  [Call(w, "vorbis_block_clear", <<B2N(w.enc.vb.live)>>)
     EXCEPT !.enc.vb = ZeroVb]

vorbis_analysis_init(w) ==
  [Call(w, "vorbis_analysis_init", <<B2N(w.enc.vd.live)>>)
     EXCEPT !.enc.vd = [ZeroVd EXCEPT !.live = TRUE]]

vorbis_block_init(w) ==
  [Call(w, "vorbis_block_init", <<B2N(w.enc.vb.live)>>)
     EXCEPT !.enc.vb = [live |-> TRUE]]

vorbis_analysis_wrote(w, vals) ==
  [Call(w, "vorbis_analysis_wrote", <<vals>>)
     EXCEPT !.enc.vd.eos = (@ \/ vals = 0)]

(***************************************************************************)
(* Property surface                                                        *)
(***************************************************************************)
\* a variant of the floor clamp that lets 0 through
ClampBitrate_positive(v) ==
  IF v > 0 /\ v < LOWEST_BITRATE THEN LOWEST_BITRATE ELSE v

\* the floor clamp applied to the three bitrate properties
ClampBitrate(v) ==
  IF v >= 0 /\ v < LOWEST_BITRATE THEN LOWEST_BITRATE ELSE v

\* the managed flag as recomputed on a min/max assignment
ManagedOf(min, max) == min > 0 /\ max > 0

\* a variant that notifies on every assignment
Notify_always(w, old) ==
  Call(w, "g_object_notify_managed", <<>>)

Notify(w, old) ==
  IF old # w.enc.managed THEN Call(w, "g_object_notify_managed", <<>>) ELSE w

set_property_max_bitrate(w, v) ==
  LET old == w.enc.managed
      nv == ClampBitrate(v)
      w1 == [w EXCEPT !.enc.max_bitrate = nv,
                      !.enc.managed = ManagedOf(w.enc.min_bitrate, nv)]
  IN Notify(w1, old)

\* a variant in which assigning the bitrate withdraws an explicit quality
set_property_bitrate_exclusive(w, v) ==
  [w EXCEPT !.enc.bitrate = ClampBitrate(v), !.enc.quality_set = FALSE]

set_property_bitrate(w, v) ==
  [w EXCEPT !.enc.bitrate = ClampBitrate(v)]

set_property_min_bitrate(w, v) ==
  LET old == w.enc.managed
      nv == ClampBitrate(v)
      w1 == [w EXCEPT !.enc.min_bitrate = nv,
                      !.enc.managed = ManagedOf(nv, w.enc.max_bitrate)]
  IN Notify(w1, old)

set_property_quality(w, q) ==
  [w EXCEPT !.enc.quality = q, !.enc.quality_set = (q >= 0)]

set_property_managed(w, b) ==
  [w EXCEPT !.enc.managed = b]

\* a variant in which an assignment marks the session not set up
gst_vorbisenc_set_property_unsetting(w, prop, v) ==
  CASE prop = "max-bitrate" ->
         [set_property_max_bitrate(w, v) EXCEPT !.enc.setup = FALSE]
    [] prop = "bitrate" ->
         [set_property_bitrate(w, v) EXCEPT !.enc.setup = FALSE]
    [] prop = "min_bitrate" ->
         [set_property_min_bitrate(w, v) EXCEPT !.enc.setup = FALSE]
    [] prop = "quality" ->
         [set_property_quality(w, v) EXCEPT !.enc.setup = FALSE]
    [] prop = "managed" ->
         [set_property_managed(w, v = 1) EXCEPT !.enc.setup = FALSE]

gst_vorbisenc_set_property(w, prop, v) ==
  CASE prop = "max-bitrate" -> set_property_max_bitrate(w, v)
    [] prop = "bitrate" -> set_property_bitrate(w, v)
    [] prop = "min_bitrate" -> set_property_min_bitrate(w, v)
    [] prop = "quality" -> set_property_quality(w, v)
    [] prop = "managed" -> set_property_managed(w, v = 1)

(***************************************************************************)
(* Setup                                                                   *)
(***************************************************************************)
get_constraints_string(e) ==
  IF e.min_bitrate > 0 /\ e.max_bitrate > 0 THEN "min_max"
  ELSE IF e.min_bitrate > 0 THEN "min_no_max"
  ELSE IF e.max_bitrate > 0 THEN "no_min_max"
  ELSE "no_min_or_max"

\* the status message, kept as <<what it reports, constraints it names>>
update_start_message(w) ==
  LET e == w.enc
      msg == IF e.bitrate > 0
             THEN IF e.managed
                  THEN <<"average_bitrate", get_constraints_string(e)>>
                  ELSE <<"approximate_bitrate_vbr", "">>
             ELSE IF e.quality_set
                  THEN IF e.managed
                       THEN <<"quality_constrained_vbr",
                              get_constraints_string(e)>>
                       ELSE <<"quality", "">>
                  ELSE <<"bitrate_management", get_constraints_string(e)>>
  IN [Call(w, "g_object_notify_last_message", <<>>)
        EXCEPT !.enc.last_message = msg]

\* quality_set as setup leaves it before choosing the mode
SetupQualitySet(e) ==
  IF e.bitrate < 0 /\ e.min_bitrate < 0 /\ e.max_bitrate < 0
  THEN TRUE ELSE e.quality_set

\* the backend setup call that setup makes for the element's configuration
SetupMode(e) == IF e.quality_set THEN "vbr" ELSE "managed"

\* vorbis_encode_setup_vbr
setup_vbr(w) ==
  [Call(w, "vorbis_encode_setup_vbr",
        <<w.enc.channels, w.enc.frequency, w.enc.quality>>)
     EXCEPT !.enc.vi.mode = "vbr"]

\* the optional hard restrictions on top of the quality setting
setup_hard_restrictions(w) ==
  LET e == w.enc
  IN IF e.max_bitrate > 0 \/ e.min_bitrate > 0
     THEN [Call(Call(w, "OV_ECTL_RATEMANAGE_GET", <<>>),
                "OV_ECTL_RATEMANAGE_SET",
                <<e.min_bitrate, e.max_bitrate, 1>>)
             EXCEPT !.enc.vi.hard_min = e.min_bitrate,
                    !.enc.vi.hard_max = e.max_bitrate,
                    !.enc.vi.mgmt = "hard"]
     ELSE w

\* vorbis_encode_setup_managed with -1 for each bound that is not positive
setup_managed(w) ==
  LET e == w.enc
      min_bitrate == IF e.min_bitrate > 0 THEN e.min_bitrate ELSE -1
      max_bitrate == IF e.max_bitrate > 0 THEN e.max_bitrate ELSE -1
  IN [Call(w, "vorbis_encode_setup_managed",
           <<e.channels, e.frequency, max_bitrate, e.bitrate, min_bitrate>>)
        EXCEPT !.enc.vi.mode = "managed",
               !.enc.vi.mgmt = "managed"]

\* the rate management switch that follows the mode choice.  With a NULL
\* argument OV_ECTL_RATEMANAGE_AVG drops the average and leaves management
\* as it is ("avg"); OV_ECTL_RATEMANAGE_SET switches management off, so the
\* hard bounds recorded in the handle no longer constrain anything ("off").
setup_ratemanage(w) ==
  IF w.enc.managed /\ w.enc.bitrate < 0
  THEN [Call(w, "OV_ECTL_RATEMANAGE_AVG", <<>>) EXCEPT !.enc.vi.mgmt = "avg"]
  ELSE IF ~w.enc.managed
  THEN [Call(w, "OV_ECTL_RATEMANAGE_SET", <<>>) EXCEPT !.enc.vi.mgmt = "off"]
  ELSE w

\* ok: whether the backend accepts the configuration
gst_vorbisenc_setup(w, ok) ==
  LET w1 == [w EXCEPT !.enc.setup = FALSE,
                      !.enc.quality_set = SetupQualitySet(w.enc)]
      w2 == update_start_message(w1)
      w3 == vorbis_info_init(w2)
      vbr == SetupMode(w3.enc) = "vbr"
      w4 == IF vbr THEN setup_vbr(w3) ELSE setup_managed(w3)
  IN IF ~ok
     THEN [vorbis_info_clear(w4) EXCEPT !.ret = "FALSE"]
     ELSE LET w5 == IF vbr THEN setup_hard_restrictions(w4) ELSE w4
              w6 == setup_ratemanage(w5)
              w7 == [Call(w6, "vorbis_encode_setup_init", <<>>)
                       EXCEPT !.enc.vi.ready = TRUE]
              w8 == vorbis_block_init(vorbis_analysis_init(w7))
          IN [w8 EXCEPT !.enc.next_ts = 0, !.enc.setup = TRUE,
                        !.ret = "TRUE"]

\* a variant that reports success and a set-up session whatever setup did
gst_vorbisenc_sink_setcaps_lenient(w, ch, rate, ok) ==
  LET w1 == [w EXCEPT !.enc.setup = FALSE, !.enc.channels = ch,
                      !.enc.frequency = rate]
      w2 == gst_vorbisenc_setup(w1, ok)
  IN [w2 EXCEPT !.enc.setup = TRUE, !.ret = "TRUE"]

gst_vorbisenc_sink_setcaps(w, ch, rate, ok) ==
  LET w1 == [w EXCEPT !.enc.setup = FALSE, !.enc.channels = ch,
                      !.enc.frequency = rate]
      w2 == gst_vorbisenc_setup(w1, ok)
  IN [w2 EXCEPT !.ret = IF w2.enc.setup THEN "TRUE" ELSE "FALSE"]

(***************************************************************************)
(* Output units                                                            *)
(***************************************************************************)
\* a unit handed to gst_pad_push.  kind, ts, dur, oend (OFFSET_END), off
\* (OFFSET), bytes, incaps (GST_BUFFER_FLAG_IN_CAPS) and caps are the
\* buffer's fields; gp is the packet's granule position and goff, sub, freq
\* the granule clock, bout and sin the byte and sample counts in force when
\* the unit was stamped.
Unit(e, kind, ts, dur, oend, off, bytes, gp) ==
  [kind |-> kind, ts |-> ts, dur |-> dur, oend |-> oend, off |-> off,
   bytes |-> bytes, incaps |-> FALSE, caps |-> "none", ret |-> "none",
   gp |-> gp, goff |-> e.granulepos_offset, sub |-> e.subgranule_offset,
   freq |-> e.frequency, bout |-> e.bytes_out, sin |-> e.samples_in]

\* a variant that stamps the backend's granule position as it comes
gst_vorbisenc_buffer_from_packet_raw(e, packet) ==
  LET oend == packet.gp
      off == granulepos_to_timestamp(e, oend)
      ts == e.next_ts
      nts == granulepos_to_timestamp_offset(e, packet.gp)
  IN <<Unit(e, "data", ts, nts - ts, oend, off, packet.bytes, packet.gp),
       [e EXCEPT !.next_ts = nts]>>

\* returns <<buffer, element after the call>>
gst_vorbisenc_buffer_from_packet(e, packet) ==
  LET oend == packet.gp + e.granulepos_offset
      off == granulepos_to_timestamp(e, oend)
      ts == e.next_ts
      nts == granulepos_to_timestamp_offset(e, packet.gp)
  IN <<Unit(e, "data", ts, nts - ts, oend, off, packet.bytes, packet.gp),
       [e EXCEPT !.next_ts = nts]>>

gst_vorbisenc_buffer_from_header_packet(e, k) ==
  Unit(e, HeaderKinds[k], GST_CLOCK_TIME_NONE, GST_CLOCK_TIME_NONE, 0,
       e.bytes_out, HeaderSizes[k], 0)

\* what a call made downstream finds the session to be: <<setup,
\* header_sent, backend handles initialised>>
SessionAt(w) ==
  <<B2N(w.enc.setup), B2N(w.enc.header_sent),
    B2N(w.enc.vi.live /\ w.enc.vd.live /\ w.enc.vb.live)>>

\* a variant that counts the bytes of a unit only when its push succeeds
gst_vorbisenc_push_buffer_accepted(w, buffer, r) ==
  [Call(w, "gst_pad_push", SessionAt(w))
     EXCEPT !.enc.bytes_out = IF r = "OK" THEN @ + buffer.bytes ELSE @,
            !.out = Append(@, [buffer EXCEPT !.ret = r]),
            !.ret = r]

\* r: the result downstream returns for this push
gst_vorbisenc_push_buffer(w, buffer, r) ==
  [Call(w, "gst_pad_push", SessionAt(w))
     EXCEPT !.enc.bytes_out = @ + buffer.bytes,
            !.out = Append(@, [buffer EXCEPT !.ret = r]),
            !.ret = r]

gst_vorbisenc_push_packet(w, packet, r) ==
  LET b == gst_vorbisenc_buffer_from_packet(w.enc, packet)
  IN gst_vorbisenc_push_buffer([w EXCEPT !.enc = b[2]], b[1], r)

gst_vorbisenc_set_header_on_caps(bufs) ==
  [k \in 1..3 |-> [bufs[k] EXCEPT !.incaps = TRUE]]

(***************************************************************************)
(* The drain loop.  pkts: the packets the backend has to hand out during   *)
(* this call, in order; fret: <<k, result>>, the k-th push from here on     *)
(* returns result and every other push returns OK (k = 0: every push       *)
(* returns OK).                                                            *)
(***************************************************************************)
\* a variant that goes on draining after a push has failed
RECURSIVE drain_packets_on(_, _, _)
drain_packets_on(w, pkts, fret) ==
  IF pkts = <<>> THEN w
  ELSE LET r == IF fret[1] = 1 THEN fret[2] ELSE "OK"
           w1 == gst_vorbisenc_push_packet(
                   [w EXCEPT !.enc.vd.gp = pkts[1].gp], pkts[1], r)
       IN drain_packets_on(w1, Tail(pkts), <<fret[1] - 1, fret[2]>>)

RECURSIVE drain_packets(_, _, _)
drain_packets(w, pkts, fret) ==
  IF pkts = <<>> THEN [w EXCEPT !.ret = "OK"]
  ELSE LET r == IF fret[1] = 1 THEN fret[2] ELSE "OK"
           w1 == gst_vorbisenc_push_packet(
                   [w EXCEPT !.enc.vd.gp = pkts[1].gp], pkts[1], r)
       IN IF r # "OK" THEN w1
          ELSE drain_packets(w1, Tail(pkts), <<fret[1] - 1, fret[2]>>)

gst_vorbisenc_output_buffers(w, pkts, fret) ==
  drain_packets(Call(w, "vorbis_analysis_blockout", <<>>), pkts, fret)

(***************************************************************************)
(* Teardown                                                                *)
(***************************************************************************)
\* a variant that leaves the setup flag as it finds it
gst_vorbisenc_clear_keep_setup(w, pkts, fret) ==
  LET w1 == IF w.enc.setup
            THEN gst_vorbisenc_output_buffers(
                   vorbis_analysis_wrote(w, 0), pkts, fret)
            ELSE [w EXCEPT !.ret = "OK"]
      w2 == vorbis_info_clear(vorbis_dsp_clear(vorbis_block_clear(w1)))
  IN [w2 EXCEPT !.enc.header_sent = FALSE]

\* a variant that returns at once when a tail push fails
gst_vorbisenc_clear_abort(w, pkts, fret) ==
  LET w1 == IF w.enc.setup
            THEN gst_vorbisenc_output_buffers(
                   vorbis_analysis_wrote(w, 0), pkts, fret)
            ELSE [w EXCEPT !.ret = "OK"]
      w2 == vorbis_info_clear(vorbis_dsp_clear(vorbis_block_clear(
              [w1 EXCEPT !.enc.setup = FALSE])))
  IN IF w1.ret # "OK" THEN w1 ELSE [w2 EXCEPT !.enc.header_sent = FALSE]

gst_vorbisenc_clear(w, pkts, fret) ==
  LET w1 == IF w.enc.setup
            THEN [gst_vorbisenc_output_buffers(
                    vorbis_analysis_wrote(w, 0), pkts, fret)
                    EXCEPT !.enc.setup = FALSE]
            ELSE [w EXCEPT !.ret = "OK"]
      w2 == vorbis_info_clear(vorbis_dsp_clear(vorbis_block_clear(w1)))
  IN [w2 EXCEPT !.enc.header_sent = FALSE]

(***************************************************************************)
(* Data buffers                                                            *)
(***************************************************************************)
\* a variant that pushes the remaining headers after a failed push
RECURSIVE push_headers_on(_, _, _, _, _)
push_headers_on(w, bufs, k, hfail, hret) ==
  IF k > 3 THEN [w EXCEPT !.ret = IF hfail = 0 THEN "OK" ELSE hret]
  ELSE LET r == IF k = hfail THEN hret ELSE "OK"
           w1 == gst_vorbisenc_push_buffer(w, bufs[k], r)
       IN push_headers_on(w1, bufs, k + 1, hfail, hret)

\* pushes header buffers k..3; hfail is the index of the push that returns
\* hret, 0 when all three return OK
RECURSIVE push_headers(_, _, _, _, _)
push_headers(w, bufs, k, hfail, hret) ==
  IF k > 3 THEN [w EXCEPT !.ret = "OK"]
  ELSE LET r == IF k = hfail THEN hret ELSE "OK"
           w1 == gst_vorbisenc_push_buffer(w, bufs[k], r)
       IN IF r # "OK" THEN w1 ELSE push_headers(w1, bufs, k + 1, hfail, hret)

\* a variant that leaves out the sub-granule correction
AdjustGranuleClock_whole(e, ts) ==
  [e EXCEPT !.next_ts = ts,
            !.granulepos_offset =
               gst_util_uint64_scale(ts, e.frequency, GST_SECOND),
            !.subgranule_offset = 0]

\* the granule clock as the handshake leaves it for a first buffer stamped ts
AdjustGranuleClock(e, ts) ==
  LET e1 == [e EXCEPT !.next_ts = ts,
                      !.granulepos_offset =
                         gst_util_uint64_scale(ts, e.frequency, GST_SECOND),
                      !.subgranule_offset = 0]
  IN [e1 EXCEPT !.subgranule_offset =
                   e1.next_ts - granulepos_to_timestamp_offset(e1, 0)]

\* the header branch of chain, up to and including header_sent = TRUE
chain_headers(w, buffer, hfail, hret) ==
  LET w1 == [w EXCEPT !.enc.next_ts = 0, !.enc.granulepos_offset = 0,
                      !.enc.subgranule_offset = 0]
      w2 == Call(Call(w1, "gst_vorbisenc_set_metadata", <<>>),
                 "vorbis_analysis_headerout", <<>>)
      raw == [k \in 1..3 |-> gst_vorbisenc_buffer_from_header_packet(w2.enc, k)]
      marked == gst_vorbisenc_set_header_on_caps(raw)
      w3 == [Call(w2, "gst_pad_set_caps", <<>>) EXCEPT !.caps = "streamheader"]
      bufs == [k \in 1..3 |-> [marked[k] EXCEPT !.caps = "streamheader"]]
      w4 == push_headers(w3, bufs, 1, hfail, hret)
  IN IF w4.ret # "OK" THEN w4
     ELSE [w4 EXCEPT !.enc = [AdjustGranuleClock(w4.enc, buffer.ts)
                                EXCEPT !.header_sent = TRUE]]

\* a variant in which every buffer runs the handshake
NeedHeaders_always(e) == TRUE

\* whether chain enters the header branch
NeedHeaders(e) == ~e.header_sent

\* a variant of the not_setup exit that drops the buffer silently
chain_not_setup_silent(w) ==
  [Call(w, "gst_buffer_unref", <<>>) EXCEPT !.ret = "OK"]

\* the not_setup exit of chain
chain_not_setup(w) ==
  [Call(Call(w, "gst_buffer_unref", <<>>),
        "GST_ELEMENT_ERROR_NEGOTIATION", <<>>)
     EXCEPT !.ret = "UNEXPECTED"]

gst_vorbisenc_chain(w, buffer, hfail, hret, pkts, fret) ==
  IF ~w.enc.setup
  THEN chain_not_setup(w)
  ELSE LET w1 == IF NeedHeaders(w.enc)
                 THEN chain_headers(w, buffer, hfail, hret)
                 ELSE [w EXCEPT !.ret = "OK"]
       IN IF w1.ret # "OK" THEN Call(w1, "gst_buffer_unref", <<>>)
          ELSE LET size == buffer.size \div (w1.enc.channels * SIZEOF_FLOAT)
                   w2 == vorbis_analysis_wrote(
                           Call(w1, "vorbis_analysis_buffer", <<size>>), size)
                   w3 == [w2 EXCEPT !.enc.samples_in = @ + size]
               IN gst_vorbisenc_output_buffers(
                    Call(w3, "gst_buffer_unref", <<>>), pkts, fret)

(***************************************************************************)
(* Events and state changes                                                *)
(***************************************************************************)
\* the handler returns whatever pushing the event downstream returns
gst_vorbisenc_sink_event(w, type, pkts, fret) ==
  LET w1 == IF type = "EOS" THEN gst_vorbisenc_clear(w, pkts, fret) ELSE w
  IN [Call(w1, "gst_pad_push_event", SessionAt(w1))
        EXCEPT !.ret = "push_event_result"]

gst_vorbisenc_change_state(w, transition) ==
  LET w1 == CASE transition = "NULL_TO_READY" ->
                   [w EXCEPT !.enc.tags = "list"]
              [] transition = "READY_TO_PAUSED" ->
                   [w EXCEPT !.enc.setup = FALSE, !.enc.header_sent = FALSE]
              [] OTHER -> w
      w2 == Call(w1, "parent_change_state", <<>>)
      w3 == CASE transition = "PAUSED_TO_READY" ->
                   [vorbis_info_clear(vorbis_dsp_clear(vorbis_block_clear(w2)))
                      EXCEPT !.enc.last_message = <<"NULL", "">>]
              [] transition = "READY_TO_NULL" ->
                   [w2 EXCEPT !.enc.tags = "NULL"]
              [] OTHER -> w2
  IN [w3 EXCEPT !.ret = "SUCCESS"]

(***************************************************************************)
(* State                                                                   *)
(***************************************************************************)
VARIABLES
  enc,       \* the GstVorbisEnc instance
  gstate,    \* the element's GstState
  caps,      \* what the source pad's caps carry
  sess,      \* what downstream has seen of the current session
  fresh,     \* a setup has succeeded and no data buffer has arrived since
  torn,      \* how many teardowns ran since the last setup (2: two or more)
  quality_assigned,  \* the quality property has been assigned by the user
  call       \* the data-buffer call in progress on the streaming thread

vars == <<enc, gstate, caps, sess, fresh, torn, quality_assigned, call>>

\* the instance as g_object_new (zeroed memory) and gst_vorbisenc_init leave it
InitEnc ==
  [setup |-> FALSE, header_sent |-> FALSE,
   channels |-> -1, frequency |-> -1,
   managed |-> FALSE,
   max_bitrate |-> MAX_BITRATE_DEFAULT,
   bitrate |-> BITRATE_DEFAULT,
   min_bitrate |-> MIN_BITRATE_DEFAULT,
   quality |-> QUALITY_DEFAULT,
   quality_set |-> FALSE,
   last_message |-> <<"NULL", "">>,
   next_ts |-> 0, granulepos_offset |-> 0, subgranule_offset |-> 0,
   samples_in |-> 0, bytes_out |-> 0,
   tags |-> "NULL",
   vi |-> ZeroVi, vd |-> ZeroVd, vb |-> ZeroVb]

\* the timing of a unit
Timing(u) ==
  [kind |-> u.kind, ts |-> u.ts, dur |-> u.dur, gp |-> u.gp, oend |-> u.oend]

NoUnit == Timing(Unit(InitEnc, "none", 0, 0, 0, 0, 0, 0))

\* A session runs from a successful setup to the next reset (end-of-stream or
\* READY->PAUSED).  st: "none", "open" or "closed"; first: the first three
\* units pushed in it, by kind; hdr: how often each header packet was pushed
\* in it (2 stands for twice or more); prev: the timing of the latest data
\* unit pushed in it; ts0:
\* the timestamp of the buffer that completed its latest handshake, -1
\* before that.
NoSession(st) ==
  [st |-> st, first |-> <<>>,
   hdr |-> [k \in {"id", "comment", "code"} |-> 0], prev |-> NoUnit,
   ts0 |-> -1]

IsData(u) == u.kind = "data"
IsHeader(u) == u.kind \in {"id", "comment", "code"}

Min(a, b) == IF a <= b THEN a ELSE b

RECURSIVE Pushed(_, _)
Pushed(s, units) ==
  IF units = <<>> THEN s
  ELSE LET u == units[1]
           s1 == [s EXCEPT
                    !.first = IF Len(@) < 3 THEN Append(@, u.kind) ELSE @,
                    !.hdr = IF IsHeader(u)
                            THEN [@ EXCEPT ![u.kind] = Min(@ + 1, 2)] ELSE @,
                    !.prev = IF IsData(u) THEN Timing(u) ELSE @]
       IN Pushed(s1, Tail(units))

\* no data-buffer call in progress.  pc: where gst_vorbisenc_chain stands;
\* ts: the buffer's timestamp; size: its size in bytes; k: the header to
\* push next; n: the packets pushed by the drain so far
Idle == [pc |-> "idle", ts |-> 0, size |-> 0, k |-> 0, n |-> 0]

Init ==
  /\ call = Idle
  /\ enc = InitEnc
  /\ gstate = "NULL"
  /\ caps = "none"
  /\ sess = NoSession("none")
  /\ fresh = FALSE
  /\ torn = 0
  /\ quality_assigned = FALSE

\* the state a handler starts from: nothing pushed yet, an empty call trace
World == [enc |-> enc, out |-> <<>>, caps |-> caps, tr |-> <<>>, ret |-> "none"]

\* pads carry data, events and negotiation only while they are active
Active == gstate \in {"PAUSED", "PLAYING"}

InBounds(w) ==
  /\ w.enc.samples_in <= MaxSamples
  /\ w.enc.bytes_out <= MaxBytes

(***************************************************************************)
(* Inputs of the handlers in the current state                             *)
(***************************************************************************)
\* the runs of packets the backend may hand out in one drain: no more than n
\* packets, granule positions non-decreasing from base
RECURSIVE PacketRuns(_, _)
PacketRuns(base, n) ==
  IF n = 0 THEN {<<>>}
  ELSE {<<>>} \cup
       UNION { { <<[gp |-> base + d, bytes |-> b]>> \o r :
                   r \in PacketRuns(base + d, n - 1) } :
               d \in {x \in GpSteps : base + x <= MaxGp}, b \in PktSizes }

\* a drain with a backlog: the packets the backend has to hand out and the
\* push that fails, packets possibly waiting behind the failing one
DrainsWithBacklog ==
  IF enc.setup
  THEN UNION { { [pkts |-> p, fret |-> f] :
                   f \in {<<0, "OK">>} \cup ((1..Len(p)) \X FailRets) } :
               p \in PacketRuns(enc.vd.gp, MaxPk) }
  ELSE { [pkts |-> <<>>, fret |-> <<0, "OK">>] }

\* a drain as it runs: the packets drawn from the backend and the results of
\* their pushes.  The loop draws no packet after a failed push
\* (vorbisenc.c:1089-1092), so a failing push is the last one of the run.
Drains == {d \in DrainsWithBacklog : d.fret[1] \in {0, Len(d.pkts)}}

\* the header push results chain may meet: <<index of the failing push, its
\* result>>, <<0, "OK">> when all three succeed or no header is pushed
HeaderResults ==
  IF enc.setup /\ NeedHeaders(enc)
  THEN {<<0, "OK">>} \cup ((1..3) \X FailRets)
  ELSE {<<0, "OK">>}

\* the buffer's timestamp is read only by the handshake
BufferTimestamps ==
  IF enc.setup /\ NeedHeaders(enc) THEN Timestamps ELSE {0}

\* the calls of gst_vorbisenc_chain with a backlog: buffer, header push
\* results, and the packets the backend holds with their push results
ChainCallsWithBacklog ==
  { [ts |-> t, size |-> z, hfail |-> h[1], hret |-> h[2],
     pkts |-> d.pkts, fret |-> d.fret] :
      t \in BufferTimestamps, z \in BufSizes, h \in HeaderResults,
      d \in DrainsWithBacklog }

\* the calls of gst_vorbisenc_chain as they run: no packet is drawn from the
\* backend when a header push fails or after a failed data push
ChainCalls ==
  { c \in ChainCallsWithBacklog :
      /\ c.fret[1] \in {0, Len(c.pkts)}
      /\ c.hfail > 0 => c.pkts = <<>> }

ChainOf(c) ==
  gst_vorbisenc_chain(World, [ts |-> c.ts, size |-> c.size], c.hfail, c.hret,
                      c.pkts, c.fret)

EosOf(d) == gst_vorbisenc_sink_event(World, "EOS", d.pkts, d.fret)

SetcapsCalls ==
  { [channels |-> f[1], rate |-> f[2], ok |-> ok] :
      f \in Formats, ok \in BOOLEAN }

SetcapsOf(c) == gst_vorbisenc_sink_setcaps(World, c.channels, c.rate, c.ok)

(***************************************************************************)
(* Actions.  Each runs one handler to completion on the current state and  *)
(* takes over the element it leaves and what it pushed.                    *)
(***************************************************************************)
BitrateProps == {"max-bitrate", "bitrate", "min_bitrate"}

\* what the observers record: the session as downstream has seen it and the
\* counts of setups and teardowns.  No handler reads any of it.
history == <<sess, fresh, torn>>

SetProperty(prop, v) ==
  \E w \in {gst_vorbisenc_set_property(World, prop, v)} :
    /\ enc' = w.enc
    /\ quality_assigned' = (quality_assigned \/ prop = "quality")
    /\ UNCHANGED <<gstate, caps, sess, fresh, torn, call>>

\* the element alone, nothing recorded
ElementSetcaps(c) ==
  /\ Active
  /\ \E w \in {SetcapsOf(c)} :
        /\ enc' = w.enc
        /\ UNCHANGED <<gstate, caps, quality_assigned, history, call>>

SinkSetcaps(c) ==
  /\ Active
  /\ \E w \in {SetcapsOf(c)} :
        /\ enc' = w.enc
        /\ sess' = IF w.enc.setup /\ sess.st # "open"
                   THEN NoSession("open") ELSE sess
        /\ fresh' = (fresh \/ w.enc.setup)
        /\ torn' = IF w.enc.setup THEN 0 ELSE torn
        /\ UNCHANGED <<gstate, caps, quality_assigned, call>>

ElementChain(c) ==
  /\ Active
  /\ \E w \in {ChainOf(c)} :
        /\ InBounds(w)
        /\ enc' = w.enc
        /\ caps' = w.caps
        /\ UNCHANGED <<gstate, quality_assigned, history, call>>

Chain(c) ==
  /\ Active
  /\ \E w \in {ChainOf(c)} :
        /\ InBounds(w)
        /\ enc' = w.enc
        /\ caps' = w.caps
        /\ sess' = [Pushed(sess, w.out) EXCEPT
                      !.ts0 = IF ~enc.header_sent /\ w.enc.header_sent
                              THEN c.ts ELSE @]
        /\ fresh' = (fresh /\ ~enc.setup)
        /\ UNCHANGED <<gstate, torn, quality_assigned, call>>

ElementEos(d) ==
  /\ Active
  /\ \E w \in {EosOf(d)} :
        /\ InBounds(w)
        /\ enc' = w.enc
        /\ UNCHANGED <<gstate, caps, quality_assigned, history, call>>

SinkEventEos(d) ==
  /\ Active
  /\ \E w \in {EosOf(d)} :
        /\ InBounds(w)
        /\ enc' = w.enc
        /\ sess' = [Pushed(sess, w.out)
                      EXCEPT !.st = IF @ = "open" THEN "closed" ELSE @]
        /\ fresh' = FALSE
        /\ torn' = Min(torn + 1, 2)
        /\ UNCHANGED <<gstate, caps, quality_assigned, call>>

\* an event other than end-of-stream is forwarded; a tag event is merged into
\* the element's tag list first
SinkEventOther(type) ==
  /\ Active
  /\ \E w \in {gst_vorbisenc_sink_event(World, type, <<>>, <<0, "OK">>)} :
        /\ enc' = w.enc
        /\ UNCHANGED <<gstate, caps, sess, fresh, torn, quality_assigned, call>>

Transitions ==
  [NULL_TO_READY |-> <<"NULL", "READY">>,
   READY_TO_PAUSED |-> <<"READY", "PAUSED">>,
   PAUSED_TO_PLAYING |-> <<"PAUSED", "PLAYING">>,
   PLAYING_TO_PAUSED |-> <<"PLAYING", "PAUSED">>,
   PAUSED_TO_READY |-> <<"PAUSED", "READY">>,
   READY_TO_NULL |-> <<"READY", "NULL">>]

ElementChangeState(transition) ==
  /\ gstate = Transitions[transition][1]
  /\ \E w \in {gst_vorbisenc_change_state(World, transition)} :
        /\ enc' = w.enc
        /\ gstate' = Transitions[transition][2]
        /\ UNCHANGED <<caps, quality_assigned, history, call>>

ChangeState(transition) ==
  /\ gstate = Transitions[transition][1]
  /\ \E w \in {gst_vorbisenc_change_state(World, transition)} :
     LET reset == transition = "READY_TO_PAUSED"
     IN /\ enc' = w.enc
        /\ gstate' = Transitions[transition][2]
        /\ sess' = [sess EXCEPT
                      !.st = IF reset /\ @ = "open" THEN "closed" ELSE @]
        /\ fresh' = (fresh /\ ~reset)
        /\ torn' = IF transition = "PAUSED_TO_READY" THEN Min(torn + 1, 2)
                   ELSE torn
        /\ UNCHANGED <<caps, quality_assigned, call>>

DoSetProperty ==
  \/ \E prop \in BitrateProps, v \in BitrateInputs : SetProperty(prop, v)
  \/ \E v \in QualityInputs : SetProperty("quality", v)
  \/ \E v \in {0, 1} : SetProperty("managed", v)

DoSinkSetcaps == \E c \in SetcapsCalls : SinkSetcaps(c)

DoChain == \E c \in ChainCalls : Chain(c)

DoSinkEventEos == \E d \in Drains : SinkEventEos(d)

DoSinkEventOther == \E type \in {"TAG", "NEWSEGMENT"} : SinkEventOther(type)

DoChangeState ==
  \E transition \in DOMAIN Transitions : ChangeState(transition)

\* the data path under the default configuration
Next ==
  \/ DoSinkSetcaps
  \/ DoChain
  \/ DoSinkEventEos
  \/ DoSinkEventOther
  \/ DoChangeState

Spec == Init /\ [][Next]_vars

\* the property surface and the setup, without data
NextCfg ==
  \/ DoSetProperty
  \/ DoSinkSetcaps
  \/ DoChangeState

SpecCfg == Init /\ [][NextCfg]_vars

\* the data path of the element alone under the default configuration: the
\* handlers of Next on the same inputs, with nothing recorded about what
\* they did
NextElement ==
  \/ \E c \in SetcapsCalls : ElementSetcaps(c)
  \/ \E c \in ChainCalls : ElementChain(c)
  \/ \E d \in Drains : ElementEos(d)
  \/ DoSinkEventOther
  \/ \E transition \in DOMAIN Transitions : ElementChangeState(transition)

SpecElement == Init /\ [][NextElement]_vars

\* property assignments made while the data path runs: one value for each
\* property, enough to reach every mode of gst_vorbisenc_setup
SessionProperties ==
  {<<"bitrate", 128000>>, <<"min_bitrate", 4000>>, <<"managed", 1>>}

\* the negotiations of a stereo stream
SessionSetcapsCalls == {c \in SetcapsCalls : c.channels = 2}

\* the buffers of a session in which every push succeeds
SessionChainCalls ==
  {c \in ChainCalls : c.hfail = 0 /\ c.fret[1] = 0 /\ Len(c.pkts) <= 1}

\* the element with its properties assigned at any moment of the data path
NextSession ==
  \/ \E p \in SessionProperties : SetProperty(p[1], p[2])
  \/ \E c \in SessionSetcapsCalls : ElementSetcaps(c)
  \/ \E c \in SessionChainCalls : ElementChain(c)
  \/ \E d \in {x \in Drains : x.pkts = <<>>} : ElementEos(d)
  \/ \E transition \in DOMAIN Transitions : ElementChangeState(transition)

SpecSession == Init /\ [][NextSession]_vars

\* sample rates of the raw caps (rate 8000..50000) and first-buffer
\* timestamps in nanoseconds around multiples of their sample periods
ClockRates == {8000, 11025, 22050, 32000, 44100, 48000, 50000}
ClockTimestamps ==
  {0, 1, 20000, 20833, 22675, 22676, 45351, 45352, 62499, 125000, 181405,
   500000017, 1000000000, 2000000001}

ClockSetcapsCalls ==
  {[channels |-> 2, rate |-> r, ok |-> TRUE] : r \in ClockRates}

\* buffers whose pushes all succeed and that draw no packet
ClockChainCalls ==
  {[ts |-> t, size |-> z, hfail |-> 0, hret |-> "OK",
    pkts |-> <<>>, fret |-> <<0, "OK">>] :
      t \in ClockTimestamps, z \in BufSizes}

\* the handshake over the sample rates and first-buffer timestamps
NextClock ==
  \/ \E c \in ClockSetcapsCalls : ElementSetcaps(c)
  \/ \E c \in ClockChainCalls : ElementChain(c)
  \/ \E transition \in DOMAIN Transitions : ElementChangeState(transition)

SpecClock == Init /\ [][NextClock]_vars

\* the data path with the latest data unit of the session and the count of
\* teardowns since the last setup recorded, and nothing else of what the
\* handlers did
StreamSetcaps(c) ==
  /\ Active
  /\ \E w \in {SetcapsOf(c)} :
        /\ enc' = w.enc
        /\ sess' = IF w.enc.setup /\ sess.st # "open" THEN NoSession("open")
                   ELSE sess
        /\ torn' = IF w.enc.setup THEN 0 ELSE torn
        /\ UNCHANGED <<gstate, caps, fresh, quality_assigned, call>>

StreamChain(c) ==
  /\ Active
  /\ \E w \in {ChainOf(c)} :
        /\ InBounds(w)
        /\ enc' = w.enc
        /\ caps' = w.caps
        /\ sess' = [sess EXCEPT !.prev = Pushed(sess, w.out).prev]
        /\ UNCHANGED <<gstate, fresh, torn, quality_assigned, call>>

StreamEos(d) ==
  /\ Active
  /\ \E w \in {EosOf(d)} :
        /\ InBounds(w)
        /\ enc' = w.enc
        /\ sess' = [sess EXCEPT !.prev = Pushed(sess, w.out).prev,
                                !.st = IF @ = "open" THEN "closed" ELSE @]
        /\ torn' = Min(torn + 1, 2)
        /\ UNCHANGED <<gstate, caps, fresh, quality_assigned, call>>

StreamChangeState(transition) ==
  /\ gstate = Transitions[transition][1]
  /\ \E w \in {gst_vorbisenc_change_state(World, transition)} :
        /\ enc' = w.enc
        /\ gstate' = Transitions[transition][2]
        /\ sess' = [sess EXCEPT
                      !.st = IF transition = "READY_TO_PAUSED" /\ @ = "open"
                             THEN "closed" ELSE @]
        /\ torn' = IF transition = "PAUSED_TO_READY" THEN Min(torn + 1, 2)
                   ELSE torn
        /\ UNCHANGED <<caps, fresh, quality_assigned, call>>

NextStream ==
  \/ \E c \in SetcapsCalls : StreamSetcaps(c)
  \/ \E c \in ChainCalls : StreamChain(c)
  \/ \E d \in Drains : StreamEos(d)
  \/ \E transition \in DOMAIN Transitions : StreamChangeState(transition)

SpecStream == Init /\ [][NextStream]_vars

(***************************************************************************)
(* The data-buffer call step by step.  vorbisenc.c takes no lock, so a      *)
(* handler delivered on another thread runs between any two steps of a      *)
(* call of gst_vorbisenc_chain in progress on the streaming thread.  A      *)
(* step of the call that hands a released handle to the backend is         *)
(* undefined: the process aborts, or the backend does nothing.             *)
(***************************************************************************)
PushResults == {"OK"} \cup FailRets

\* entry of chain up to the first push: the setup check and, when the
\* headers are due, the reset of the clock, the headers and the pad's caps
ThreadChainEnter(ts, size) ==
  /\ Active
  /\ call.pc = "idle"
  /\ IF ~enc.setup
     THEN UNCHANGED <<enc, caps, call>>
     ELSE IF NeedHeaders(enc)
          THEN /\ enc' = [enc EXCEPT !.next_ts = 0, !.granulepos_offset = 0,
                                     !.subgranule_offset = 0]
               /\ caps' = "streamheader"
               /\ call' = [pc |-> "headers", ts |-> ts, size |-> size,
                           k |-> 1, n |-> 0]
          ELSE /\ call' = [pc |-> "submit", ts |-> ts, size |-> size,
                           k |-> 0, n |-> 0]
               /\ UNCHANGED <<enc, caps>>
  /\ UNCHANGED <<gstate, quality_assigned, history>>

\* the push of header call.k, which downstream answers with r
ThreadPushHeader(r) ==
  /\ call.pc = "headers"
  /\ \E w \in {gst_vorbisenc_push_buffer(
                  World, gst_vorbisenc_buffer_from_header_packet(enc, call.k),
                  r)} :
        /\ InBounds(w)
        /\ enc' = w.enc
        /\ call' = IF r # "OK" THEN Idle
                   ELSE IF call.k = 3
                        THEN [call EXCEPT !.pc = "submit", !.k = 4]
                        ELSE [call EXCEPT !.k = @ + 1]
  /\ UNCHANGED <<gstate, caps, quality_assigned, history>>

\* after the headers the clock is adjusted and header_sent set; the samples
\* are handed to the backend and counted
ThreadSubmit ==
  /\ call.pc = "submit"
  /\ \E e \in {IF call.k = 4
               THEN [AdjustGranuleClock(enc, call.ts)
                       EXCEPT !.header_sent = TRUE]
               ELSE enc} :
       \E size \in {call.size \div (e.channels * SIZEOF_FLOAT)} :
         \E w \in {vorbis_analysis_wrote([World EXCEPT !.enc = e], size)} :
           /\ enc' = [w.enc EXCEPT !.samples_in = @ + size]
           /\ enc'.samples_in <= MaxSamples
  /\ call' = [call EXCEPT !.pc = "drain"]
  /\ UNCHANGED <<gstate, caps, quality_assigned, history>>

\* one round of the drain loop: the backend has no packet and the call
\* returns, or it hands out the next packet, which is pushed
ThreadDrain ==
  /\ call.pc = "drain"
  /\ \/ /\ call' = Idle
        /\ UNCHANGED enc
     \/ /\ enc.vd.live
        /\ call.n < MaxPk
        /\ \E p \in PacketRuns(enc.vd.gp, 1) \ {<<>>}, r \in PushResults :
             \E w \in {gst_vorbisenc_push_packet(
                          [World EXCEPT !.enc.vd.gp = p[1].gp], p[1], r)} :
               /\ InBounds(w)
               /\ enc' = w.enc
               /\ call' = IF r # "OK" THEN Idle
                          ELSE [call EXCEPT !.n = @ + 1]
  /\ UNCHANGED <<gstate, caps, quality_assigned, history>>

\* the call hands a released handle to the backend and the process aborts
ThreadAbort ==
  /\ call.pc \in {"submit", "drain"}
  /\ ~enc.vd.live
  /\ gstate' = "ABORTED"
  /\ call' = [call EXCEPT !.pc = "aborted"]
  /\ UNCHANGED <<enc, caps, quality_assigned, history>>

\* the streaming thread inside gst_vorbisenc_chain, and negotiation,
\* end-of-stream and state changes delivered meanwhile on another thread
NextThreads ==
  \/ \E ts \in Timestamps, size \in BufSizes : ThreadChainEnter(ts, size)
  \/ \E r \in PushResults : ThreadPushHeader(r)
  \/ ThreadSubmit
  \/ ThreadDrain
  \/ ThreadAbort
  \/ \E c \in SetcapsCalls : ElementSetcaps(c)
  \/ \E d \in {x \in Drains : Len(x.pkts) <= 1} : ElementEos(d)
  \/ \E transition \in DOMAIN Transitions : ElementChangeState(transition)

SpecThreads == Init /\ [][NextThreads]_vars

(***************************************************************************)
(* Properties.  The handlers are functions of the element's state and of   *)
(* their inputs, so a statement about what a handler does is a statement   *)
(* about its outcomes over the inputs it may meet in a reachable state.    *)
(***************************************************************************)
CallsOf(w, c) == Cardinality({i \in DOMAIN w.tr : w.tr[i].c = c})

\* c1 is called, and some call of c2 comes after it
CalledBefore(w, c1, c2) ==
  \E i, j \in DOMAIN w.tr : i < j /\ w.tr[i].c = c1 /\ w.tr[j].c = c2

ClearCalls == {"vorbis_block_clear", "vorbis_dsp_clear", "vorbis_info_clear"}

\* the calls of w that release what a live handle holds
Released(w) ==
  {i \in DOMAIN w.tr : w.tr[i].c \in ClearCalls /\ w.tr[i].a = <<1>>}

KindsOf(units) == [i \in DOMAIN units |-> units[i].kind]

IsPrefix(s, t) == Len(s) <= Len(t) /\ \A i \in DOMAIN s : s[i] = t[i]

\* the data units of the session so far, from the latest one on, once the
\* handler with outcome w has run
DataAfter(w) ==
  LET new == SelectSeq(w.out, IsData)
  IN (IF sess.prev = NoUnit THEN <<>> ELSE <<sess.prev>>)
     \o [i \in DOMAIN new |-> Timing(new[i])]

\* order of two GstClockTime values
U64Leq(a, b) == IF (a < 0) = (b < 0) THEN a <= b ELSE b < 0

\* the outcomes of the handlers that push data, in the current state
ChainOutcomes == IF Active THEN {ChainOf(c) : c \in ChainCalls} ELSE {}
EosOutcomes == IF Active THEN {EosOf(d) : d \in Drains} ELSE {}
PushOutcomes == ChainOutcomes \cup EosOutcomes

\* the teardowns that can run in the current state, by their outcome
TeardownOutcomes ==
  (IF Active
   THEN {gst_vorbisenc_clear(World, d.pkts, d.fret) : d \in Drains} ELSE {})
  \cup
  (IF gstate = "PAUSED"
   THEN {gst_vorbisenc_change_state(World, "PAUSED_TO_READY")} ELSE {})

\* C1: in every session the first three units pushed downstream are the
\* identification, comment and codebook headers in that order, each with
\* timestamp and duration unknown, and no data packet is pushed before them.
C1_HeaderFirst ==
  /\ IsPrefix(sess.first, HeaderKinds)
  /\ \A w \in PushOutcomes : \A i \in DOMAIN w.out :
       IsHeader(w.out[i]) =>
         /\ w.out[i].ts = GST_CLOCK_TIME_NONE
         /\ w.out[i].dur = GST_CLOCK_TIME_NONE

\* C2: within one session each of the three header packets is pushed
\* downstream exactly once, whatever the downstream push results: never
\* twice, and once each as soon as a handshake has completed.
C2_HeadersOnce ==
  \A k \in DOMAIN sess.hdr :
    /\ sess.hdr[k] <= 1
    /\ sess.ts0 # -1 => sess.hdr[k] = 1

\* C3: after every successful setup or re-setup, the first data buffer
\* received runs the header handshake before its samples are submitted to
\* the backend.
C3_HandshakeAfterSetup ==
  (enc.setup /\ fresh) =>
    \A w \in ChainOutcomes :
      CallsOf(w, "vorbis_analysis_buffer") > 0 =>
        CalledBefore(w, "vorbis_analysis_headerout", "vorbis_analysis_buffer")

\* C4: within a session, whatever buffers, events and setups occur, the
\* timestamps of the data packets pushed downstream are non-decreasing (the
\* backend's granule positions being non-decreasing).
C4_MonotonicTimestamps ==
  sess.st = "open" =>
    \A w \in PushOutcomes :
      LET d == DataAfter(w)
      IN \A i \in 1..(Len(d) - 1) : U64Leq(d[i].ts, d[i + 1].ts)

\* C5: for every two consecutive data packets i and i+1 pushed in the same
\* session, duration[i] = timestamp[i+1] - timestamp[i].
C5_DurationIsTimestampStep ==
  sess.st = "open" =>
    \A w \in PushOutcomes :
      LET d == DataAfter(w)
      IN \A i \in 1..(Len(d) - 1) : d[i].dur = d[i + 1].ts - d[i].ts

\* C6: when the first data buffer of a session has timestamp T and the
\* sample rate is R, the handshake sets granule_offset = floor(T*R/10^9)
\* (R itself for T = one second); the first data packet of the session is
\* stamped T, and every later data packet is stamped with the
\* offset-corrected time of the preceding packet's granule position.
C6_OffsetCorrection ==
  sess.st = "open" =>
    \A c \in (IF Active THEN ChainCalls ELSE {}) :
      LET w == ChainOf(c)
          d == DataAfter(w)
          shake == NeedHeaders(enc) /\ w.enc.header_sent
          T == IF shake THEN c.ts ELSE sess.ts0
      IN /\ shake /\ sess.ts0 = -1 =>
              /\ w.enc.granulepos_offset =
                   gst_util_uint64_scale(T, w.enc.frequency, GST_SECOND)
              /\ T = GST_SECOND => w.enc.granulepos_offset = w.enc.frequency
         /\ (T # -1 /\ sess.prev = NoUnit /\ d # <<>>) => d[1].ts = T
         /\ \A i \in 1..(Len(d) - 1) :
              d[i + 1].ts = granulepos_to_timestamp_offset(w.enc, d[i].gp)

\* C7: when end-of-stream arrives on a set-up session that has received no
\* data buffer, the element still pushes the three header packets, pushes
\* no data packet and reports no error.
C7_EosBeforeData ==
  (Active /\ enc.setup /\ sess.st = "open" /\ sess.first = <<>>) =>
    \A d \in Drains :
      LET w == gst_vorbisenc_clear(World, d.pkts, d.fret)
      IN /\ KindsOf(w.out) = HeaderKinds
         /\ w.ret = "OK"

\* C8: a teardown (end-of-stream clear or PAUSED->READY) of a session whose
\* setup never completed, or one that follows another teardown, reports no
\* error, runs no tail flush and releases nothing; and any teardown runs the
\* tail flush at most once and releases each handle at most once, and only
\* when it is initialised.
C8_IdempotentTeardown ==
  \A w \in TeardownOutcomes :
    /\ CallsOf(w, "vorbis_analysis_wrote") <= 1
    /\ \A c \in ClearCalls : CallsOf(w, c) = 1
    /\ \A h \in {"vi", "vd", "vb"} : ~w.enc[h].live
    /\ Cardinality(Released(w)) =
         Cardinality({h \in {"vi", "vd", "vb"} : enc[h].live})
    /\ (torn > 0 \/ sess.st = "none") =>
         /\ CallsOf(w, "vorbis_analysis_wrote") = 0
         /\ Released(w) = {}
         /\ w.out = <<>>
         /\ w.ret \in {"OK", "SUCCESS"}

\* two teardowns in a row have run: end-of-stream, then PAUSED->READY
C8_Witness ==
  /\ torn = 2
  /\ gstate = "READY"
  /\ sess.st = "closed"
  /\ \A h \in {"vi", "vd", "vb"} : ~enc[h].live

\* C9: whenever setup runs with at least one of bitrate, min_bitrate,
\* max_bitrate set and quality never assigned by the user, the managed
\* backend setup call is made, with -1 for each unset bound, whatever
\* assignments and setups happened earlier.
C9_ModeRule ==
  (Active /\ ~quality_assigned
     /\ (enc.bitrate >= 0 \/ enc.min_bitrate >= 0 \/ enc.max_bitrate >= 0)) =>
    \A c \in SetcapsCalls :
      LET w == SetcapsOf(c)
          unset(v) == IF v > 0 THEN v ELSE -1
      IN /\ CallsOf(w, "vorbis_encode_setup_vbr") = 0
         /\ \E i \in DOMAIN w.tr :
              /\ w.tr[i].c = "vorbis_encode_setup_managed"
              /\ w.tr[i].a = <<c.channels, c.rate, unset(enc.max_bitrate),
                               enc.bitrate, unset(enc.min_bitrate)>>

\* C10: assigning a positive bitrate then a non-negative quality, and
\* assigning the same quality then the same bitrate, lead the following
\* setup to the same mode, QualityVBR; and every setup makes exactly one of
\* the two backend setup calls.
C10_ModeOrderIndependent ==
  \A c \in SetcapsCalls :
    /\ CallsOf(SetcapsOf(c), "vorbis_encode_setup_vbr")
         + CallsOf(SetcapsOf(c), "vorbis_encode_setup_managed") = 1
    /\ \A b \in {v \in BitrateInputs : v > 0},
          q \in {v \in QualityInputs : v >= 0} :
         LET bq == gst_vorbisenc_set_property(
                     gst_vorbisenc_set_property(World, "bitrate", b),
                     "quality", q)
             qb == gst_vorbisenc_set_property(
                     gst_vorbisenc_set_property(World, "quality", q),
                     "bitrate", b)
             wbq == gst_vorbisenc_sink_setcaps(bq, c.channels, c.rate, c.ok)
             wqb == gst_vorbisenc_sink_setcaps(qb, c.channels, c.rate, c.ok)
         IN /\ wbq.enc.vi = wqb.enc.vi
            /\ wbq.tr = wqb.tr
            /\ CallsOf(wbq, "vorbis_encode_setup_vbr") = 1
            /\ CallsOf(wbq, "vorbis_encode_setup_managed") = 0

\* a setup has selected QualityVBR with an explicit quality and a positive
\* bitrate both assigned
C10_Witness ==
  /\ enc.setup
  /\ enc.bitrate > 0
  /\ quality_assigned /\ enc.quality_set /\ enc.quality >= 0
  /\ enc.vi.mode = "vbr"

\* values assigned to a bitrate property around the floor and the ceiling
ClampInputs ==
  {-1, 0, 4000, LOWEST_BITRATE - 1, LOWEST_BITRATE, 128000, HIGHEST_BITRATE}

\* the field a bitrate property is stored in
PropField ==
  [p \in BitrateProps |->
     CASE p = "max-bitrate" -> "max_bitrate"
       [] p = "bitrate" -> "bitrate"
       [] p = "min_bitrate" -> "min_bitrate"]

\* C11: assigning v with 0 <= v < 6000 to bitrate, min_bitrate or
\* max_bitrate stores 6000, assigning -1 (or any other value of the range)
\* stores it unchanged; so each stored value is -1 or lies in [6000, 250001].
C11_BitrateFloorClamp ==
  /\ \A p \in BitrateProps :
       \/ enc[PropField[p]] = -1
       \/ (LOWEST_BITRATE <= enc[PropField[p]]
             /\ enc[PropField[p]] <= HIGHEST_BITRATE)
  /\ \A p \in BitrateProps, v \in ClampInputs :
       gst_vorbisenc_set_property(World, p, v).enc[PropField[p]] =
         (IF 0 <= v /\ v < LOWEST_BITRATE THEN LOWEST_BITRATE ELSE v)

\* min_bitrate = 4000 has been assigned and is stored as 6000
C11_Witness ==
  /\ enc.min_bitrate = LOWEST_BITRATE
  /\ enc.bitrate = -1
  /\ enc.max_bitrate = 128000

\* C12: after every assignment to min_bitrate or max_bitrate the managed
\* flag equals (min_bitrate > 0 and max_bitrate > 0) on the clamped values,
\* and a 'managed' notification is raised if and only if the flag changed.
C12_ManagedFlagAndNotify ==
  \A p \in {"max-bitrate", "min_bitrate"}, v \in ClampInputs :
    LET w == gst_vorbisenc_set_property(World, p, v)
    IN /\ w.enc.managed = (w.enc.min_bitrate > 0 /\ w.enc.max_bitrate > 0)
       /\ CallsOf(w, "g_object_notify_managed") =
            (IF w.enc.managed # enc.managed THEN 1 ELSE 0)

\* both bounds have been assigned positive values and the flag has flipped
\* to TRUE
C12_Witness ==
  /\ enc.managed
  /\ enc.min_bitrate = 128000
  /\ enc.max_bitrate = LOWEST_BITRATE

\* the data buffers that may be handed to an element e, with the push
\* results and backend packets their handling would meet
BufferCalls(e) ==
  { [ts |-> t, size |-> z, hfail |-> h[1], hret |-> h[2],
     pkts |-> p, fret |-> <<0, "OK">>] :
      t \in Timestamps, z \in BufSizes,
      h \in {<<0, "OK">>} \cup ((1..3) \X FailRets),
      p \in PacketRuns(e.vd.gp, 1) }

\* those of them whose pushes all succeed and that draw no packet
PlainBufferCalls(e) ==
  {c \in BufferCalls(e) : c.hfail = 0 /\ c.pkts = <<>>}

\* gst_vorbisenc_chain on element e
ChainFrom(e, c) ==
  gst_vorbisenc_chain([World EXCEPT !.enc = e],
                      [ts |-> c.ts, size |-> c.size], c.hfail, c.hret,
                      c.pkts, c.fret)

\* the buffer is refused as not negotiated and nothing else happens
Refused(e, w) ==
  /\ w.ret = "UNEXPECTED"
  /\ [i \in DOMAIN w.tr |-> w.tr[i].c] =
       <<"gst_buffer_unref", "GST_ELEMENT_ERROR_NEGOTIATION">>
  /\ w.out = <<>>
  /\ w.enc = e
  /\ w.caps = caps

\* C13: a data buffer delivered while the session is not set up is rejected
\* with the negotiation error, is discarded, pushes nothing, submits nothing
\* to the backend and leaves header_sent, the granule clock, samples_in and
\* bytes_out unchanged.
C13_NotSetupRejected ==
  (Active /\ ~enc.setup) =>
    \A c \in BufferCalls(enc) : \A w \in {ChainFrom(enc, c)} : Refused(enc, w)

\* a session that took samples and pushed its headers and a data packet
\* has been torn down, and the next buffer is refused
C13_Witness ==
  /\ Active /\ ~enc.setup /\ ~enc.header_sent
  /\ enc.vi = ZeroVi
  /\ enc.samples_in > 0 /\ enc.bytes_out > 3
  /\ \E c \in BufferCalls(enc) : ChainFrom(enc, c).ret = "UNEXPECTED"

\* C14: after a setup whose backend configuration call fails the session is
\* not set up and negotiation reports failure; every data buffer is refused
\* until a later setup succeeds, after which data buffers are processed
\* again.  A session is set up only with initialised backend handles.
C14_FailedSetupRefusesData ==
  Active =>
    /\ enc.setup => (enc.vi.ready /\ enc.vd.live /\ enc.vb.live)
    /\ \A c \in {x \in SetcapsCalls : ~x.ok} : \A w \in {SetcapsOf(c)} :
         /\ ~w.enc.setup
         /\ w.ret = "FALSE"
         /\ \A b \in PlainBufferCalls(w.enc) :
              \A w1 \in {ChainFrom(w.enc, b)} :
              Refused(w.enc, w1)
         /\ \A c2 \in {x \in SetcapsCalls : x.ok} :
              \A w2 \in {gst_vorbisenc_sink_setcaps(
                           [World EXCEPT !.enc = w.enc],
                           c2.channels, c2.rate, c2.ok)} :
                /\ w2.enc.setup
                /\ w2.ret = "TRUE"
                /\ \A b \in PlainBufferCalls(w2.enc) :
                     \A w3 \in {ChainFrom(w2.enc, b)} :
                       /\ w3.ret # "UNEXPECTED"
                       /\ CallsOf(w3, "GST_ELEMENT_ERROR_NEGOTIATION") = 0
                       /\ CallsOf(w3, "vorbis_analysis_headerout")
                            + CallsOf(w3, "vorbis_analysis_buffer") > 0

\* a session is running (headers out, samples taken) when a negotiation
\* fails: the element is left not set up and refuses the next buffer, and
\* after a negotiation that succeeds it takes the next buffer again
C14_Witness ==
  /\ Active /\ enc.setup /\ enc.header_sent /\ enc.samples_in > 0
  /\ \E c \in {x \in SetcapsCalls : ~x.ok} : \E w \in {SetcapsOf(c)} :
       /\ ~w.enc.setup /\ w.ret = "FALSE"
       /\ \E b \in PlainBufferCalls(w.enc) :
            ChainFrom(w.enc, b).ret = "UNEXPECTED"
       /\ \E c2 \in {x \in SetcapsCalls : x.ok} :
          \E w2 \in {gst_vorbisenc_sink_setcaps(
                       [World EXCEPT !.enc = w.enc],
                       c2.channels, c2.rate, c2.ok)} :
            /\ w2.enc.setup
            /\ \E b \in PlainBufferCalls(w2.enc) :
                 CallsOf(ChainFrom(w2.enc, b), "vorbis_analysis_buffer") = 1

\* what a failing setup may change under C15: the ready mark and the format
\* that negotiation stored before calling it; the info handle is released
AfterFailedSetup(e, c) ==
  [e EXCEPT !.setup = FALSE, !.channels = c.channels, !.frequency = c.rate,
            !.vi = ZeroVi]

RetsOf(units) == [i \in DOMAIN units |-> units[i].ret]

\* C16: if pushing the k-th header packet (k in 1..3) returns a non-OK
\* result, no later header packet is pushed in that call, the call returns
\* exactly that result, and none of the buffer's samples are submitted to
\* the backend: samples_in is unchanged and no data packet is pushed.
C16_HeaderPushFailure ==
  Active =>
    \A c \in {x \in ChainCallsWithBacklog : x.hfail > 0} :
    \A w \in {ChainOf(c)} :
      /\ KindsOf(w.out) = SubSeq(HeaderKinds, 1, c.hfail)
      /\ RetsOf(w.out) = [i \in 1..c.hfail |->
                            IF i = c.hfail THEN c.hret ELSE "OK"]
      /\ CallsOf(w, "gst_pad_push") = c.hfail
      /\ w.ret = c.hret
      /\ w.enc.samples_in = enc.samples_in
      /\ CallsOf(w, "vorbis_analysis_buffer") = 0
      /\ CallsOf(w, "vorbis_analysis_wrote") = 0
      /\ CallsOf(w, "vorbis_analysis_blockout") = 0
      /\ ~w.enc.header_sent

\* a header push has failed in the first handshake of the element: the
\* header caps are set and two header bytes are out, no sample has been
\* taken, and the handshake is still to be completed
C16_Witness ==
  /\ Active /\ enc.setup /\ ~enc.header_sent
  /\ caps = "streamheader"
  /\ enc.bytes_out = HeaderSizes[1] + HeaderSizes[2]
  /\ enc.samples_in = 0

\* how many packets a drain over pkts pushes when its k-th push is the one
\* that fails (k = 0: none fails)
PushedOf(pkts, fret) == IF fret[1] = 0 THEN Len(pkts) ELSE fret[1]

\* C17: during the drain after a data buffer, as soon as one packet push
\* returns a non-OK result no further packet is pushed in that call and the
\* call returns exactly that result; when every push succeeds the call
\* returns OK once the backend has handed out all its packets; the packets
\* are pushed in the order the backend emitted them.
C17_DataPushFailure ==
  (Active /\ enc.setup) =>
    \A c \in {x \in ChainCallsWithBacklog : x.hfail = 0} :
    \A w \in {ChainOf(c)} :
    \A data \in {SelectSeq(w.out, IsData)} :
      LET n == PushedOf(c.pkts, c.fret)
      IN /\ [i \in DOMAIN data |-> data[i].gp] =
              [i \in 1..n |-> c.pkts[i].gp]
         /\ RetsOf(data) =
              [i \in 1..n |-> IF i = c.fret[1] THEN c.fret[2] ELSE "OK"]
         /\ w.ret = (IF c.fret[1] = 0 THEN "OK" ELSE c.fret[2])
         /\ CallsOf(w, "vorbis_analysis_wrote") = 1
         /\ \A i, j \in DOMAIN w.out :
              (IsData(w.out[i]) /\ IsHeader(w.out[j])) => j < i

\* data is flowing in a session, and the buffer that comes next meets a
\* failing push of the first of two packets with different granule
\* positions: one data unit is pushed and the call returns the failure
C17_Witness ==
  /\ Active /\ enc.setup /\ enc.header_sent
  /\ enc.samples_in > 0
  /\ \E c \in ChainCallsWithBacklog :
       /\ Len(c.pkts) = 2 /\ c.pkts[1].gp < c.pkts[2].gp
       /\ c.fret[1] = 1
       /\ \E w \in {ChainOf(c)} :
            /\ w.ret = c.fret[2]
            /\ Len(w.out) = 1
            /\ w.out[1].gp = c.pkts[1].gp

\* the handlers that may run on an active element without resetting the
\* session, by their outcome: negotiation, data buffers and the events
\* other than end-of-stream
InSessionOutcomes ==
  IF Active
  THEN {SetcapsOf(c) : c \in SetcapsCalls}
       \cup ChainOutcomes
       \cup {gst_vorbisenc_sink_event(World, type, <<>>, <<0, "OK">>) :
               type \in {"TAG", "NEWSEGMENT"}}
  ELSE {}

\* C18: once the header packets of a session have been emitted, the
\* session's channel count and sample rate do not change until the session
\* is reset (end-of-stream clear or READY->PAUSED): no event, buffer or
\* negotiation arriving after the headers alters them.
C18_FormatImmutable ==
  enc.header_sent =>
    \A w \in InSessionOutcomes :
      /\ w.enc.channels = enc.channels
      /\ w.enc.frequency = enc.frequency

\* C19: in every reachable state, managed = TRUE implies that min_bitrate
\* and max_bitrate are both positive, or that an average bitrate is set
\* (bitrate > 0) with management enabled; this after any sequence of
\* assignments to bitrate, min_bitrate, max_bitrate, quality and managed.
C19_ManagedNeedsBitrates ==
  enc.managed =>
    \/ (enc.min_bitrate > 0 /\ enc.max_bitrate > 0)
    \/ (enc.bitrate > 0 /\ enc.managed)

\* C20: in quality mode, whenever min_bitrate or max_bitrate (either one,
\* or both) is set, a successful setup leaves the backend with those values
\* installed as hard constraints, with rate management active, on top of
\* the quality setting; the mode remains the quality mode.
C20_HardConstraintsActive ==
  Active =>
    \A c \in {x \in SetcapsCalls : x.ok} : \A w \in {SetcapsOf(c)} :
      (w.enc.quality_set /\ (enc.min_bitrate > 0 \/ enc.max_bitrate > 0)) =>
        /\ w.enc.setup
        /\ w.enc.vi.mode = "vbr"
        /\ CallsOf(w, "vorbis_encode_setup_managed") = 0
        /\ w.enc.vi.hard_min = enc.min_bitrate
        /\ w.enc.vi.hard_max = enc.max_bitrate
        /\ w.enc.vi.mgmt \in {"hard", "avg"}

\* the assignments of the configuration properties
PropertyCalls ==
  (BitrateProps \X BitrateInputs) \cup ({"quality"} \X QualityInputs)
    \cup ({"managed"} \X {0, 1})

PropertyOutcomes ==
  {gst_vorbisenc_set_property(World, c[1], c[2]) : c \in PropertyCalls}

\* C21: once the handshake of a session has completed (header_sent is
\* TRUE), granulepos_offset and subgranule_offset are not changed by any
\* later data buffer, drain, property assignment or setup, until the session
\* is reset.
C21_OffsetsFixed ==
  enc.header_sent =>
    \A w \in InSessionOutcomes \cup PropertyOutcomes :
      /\ w.enc.granulepos_offset = enc.granulepos_offset
      /\ w.enc.subgranule_offset = enc.subgranule_offset

\* a handshake on a buffer stamped 500000017 ns has fixed both offsets; a
\* bitrate has been assigned and a setup has run since (next_ts is back at
\* 0) and the offsets are still those of the handshake
C21_Witness ==
  /\ Active /\ enc.setup /\ enc.header_sent
  /\ enc.granulepos_offset = 22050 /\ enc.subgranule_offset = 17
  /\ enc.next_ts = 0
  /\ enc.samples_in > 0
  /\ enc.bitrate = 128000

\* one sample period in nanoseconds, rounded up
SamplePeriod(e) == (GST_SECOND + e.frequency - 1) \div e.frequency

\* the clock after the handshake on a first buffer stamped c.ts: granule
\* position 0 converts to exactly c.ts and next_ts is c.ts
ClockStartsAt(w, c) ==
  /\ w.enc.header_sent
  /\ granulepos_to_timestamp_offset(w.enc, 0) = c.ts
  /\ w.enc.next_ts = c.ts
  /\ w.enc.subgranule_offset >= 0

\* C22 as stated: for every first-buffer timestamp T and sample rate R in
\* [8000, 50000], after the handshake the offset-corrected conversion of
\* granule position 0 equals exactly T, subgranule_offset is non-negative
\* and smaller than one sample period (10^9/R ns, rounded up), and next_ts
\* equals T.
C22_ClockStartStrict ==
  (Active /\ enc.setup /\ ~enc.header_sent) =>
    \A c \in ClockChainCalls : \A w \in {ChainFrom(enc, c)} :
      /\ ClockStartsAt(w, c)
      /\ w.enc.subgranule_offset < SamplePeriod(w.enc)

\* C22 as amended: the same, with subgranule_offset non-negative and at
\* most one sample period (10^9/R ns, rounded up).
C22_ClockStart ==
  (Active /\ enc.setup /\ ~enc.header_sent) =>
    \A c \in ClockChainCalls : \A w \in {ChainFrom(enc, c)} :
      /\ ClockStartsAt(w, c)
      /\ w.enc.subgranule_offset <= SamplePeriod(w.enc)

\* the handshake has run at 44100 Hz on a first buffer stamped 45351 ns:
\* granule offset 1, and the sub-granule offset is a whole rounded-up period
C22_Witness ==
  /\ Active /\ enc.setup /\ enc.header_sent
  /\ enc.frequency = 44100
  /\ enc.next_ts = 45351
  /\ enc.granulepos_offset = 1
  /\ enc.subgranule_offset = SamplePeriod(enc)

\* the positions in the call trace of w of the calls named in cs
TracePositions(w, cs) == {i \in DOMAIN w.tr : w.tr[i].c \in cs}

\* C23: on end-of-stream of a set-up session the backend is told the input
\* has ended and all tail packets are drained and pushed before the session
\* is marked not set up, before the backend handles are released and before
\* the end-of-stream event is forwarded downstream; the handles are released
\* and header_sent is re-armed (FALSE) even when a tail push fails.
C23_EosOrdering ==
  (Active /\ enc.setup) =>
    \A d \in DrainsWithBacklog : \A w \in {EosOf(d)} :
      LET pushes == TracePositions(w, {"gst_pad_push"})
          clears == TracePositions(w, ClearCalls)
          events == TracePositions(w, {"gst_pad_push_event"})
      IN /\ w.tr[1] = [c |-> "vorbis_analysis_wrote", a |-> <<0>>]
         /\ CallsOf(w, "vorbis_analysis_wrote") = 1
         /\ Cardinality(pushes) = PushedOf(d.pkts, d.fret)
         /\ [i \in DOMAIN w.out |-> w.out[i].gp] =
              [i \in 1..PushedOf(d.pkts, d.fret) |-> d.pkts[i].gp]
         /\ \A i \in pushes :
              /\ w.tr[i].a[1] = 1 /\ w.tr[i].a[3] = B2N(enc.vi.live)
              /\ \A j \in clears \cup events : i < j
         /\ Cardinality(clears) = 3
         /\ Cardinality(Released(w)) =
              Cardinality({h \in {"vi", "vd", "vb"} : enc[h].live})
         /\ events = {Len(w.tr)}
         /\ \A j \in events : w.tr[j].a = <<0, 0, 0>>
         /\ \A i \in clears : \A j \in events : i < j
         /\ ~w.enc.setup /\ ~w.enc.header_sent
         /\ ~w.enc.vi.live /\ ~w.enc.vd.live /\ ~w.enc.vb.live

\* data is flowing in a session when end-of-stream arrives with two tail
\* packets of which the first push fails: one packet is pushed, and the
\* session is left torn down with header_sent re-armed
C23_Witness ==
  /\ Active /\ enc.setup /\ enc.header_sent /\ enc.samples_in > 0
  /\ enc.vi.live /\ enc.vd.live /\ enc.vb.live
  /\ \E d \in DrainsWithBacklog :
       /\ Len(d.pkts) = 2 /\ d.fret[1] = 1
       /\ \E w \in {EosOf(d)} :
            /\ Len(w.out) = 1 /\ w.out[1].ret = d.fret[2]
            /\ ~w.enc.setup /\ ~w.enc.header_sent /\ ~w.enc.vi.live

\* C24: every data unit pushed by a data buffer or at end-of-stream has
\* OFFSET_END equal to its packet's granule position plus the element's
\* granulepos_offset, which is the offset of the session's handshake; the
\* OFFSET_END of successive data units of a session does not decrease
\* where the backend's granule positions do not; every header unit has
\* OFFSET_END 0.
C24_EndPositions ==
  \A w \in PushOutcomes :
    /\ \A i \in DOMAIN w.out :
          /\ IsData(w.out[i]) =>
                /\ w.out[i].oend = w.out[i].gp + w.enc.granulepos_offset
                /\ w.out[i].goff = w.enc.granulepos_offset
          /\ IsHeader(w.out[i]) => w.out[i].oend = 0
    /\ sess.st = "open" =>
          \E d \in {DataAfter(w)} :
            \A i \in 1..(Len(d) - 1) :
              d[i].gp <= d[i + 1].gp => d[i].oend <= d[i + 1].oend

\* a session whose handshake set a granule offset of 22050 has pushed its
\* second data packet, stamped with the offset
C24_Witness ==
  /\ sess.st = "open"
  /\ enc.header_sent
  /\ enc.granulepos_offset = 22050
  /\ sess.prev.kind = "data"
  /\ sess.prev.gp = 2048
  /\ sess.prev.oend = 2048 + 22050

\* the byte position the source pad's conversion gives for granule position
\* gp with the counts in force when unit u was stamped: <<res, bytes>>
BytePosition(u, gp) ==
  gst_vorbisenc_convert_src(
    [bytes_out |-> u.bout, samples_in |-> u.sin, frequency |-> u.freq],
    "TIME", gst_util_uint64_scale(gp, GST_SECOND, u.freq), "BYTES")

\* C25 as stated: the OFFSET of every data unit pushed is the byte position
\* of its packet's granule position (raw, or with the granule offset added)
\* under the running average bitrate bytes_out * frequency / samples_in.
C25_OffsetInBytes ==
  \A w \in PushOutcomes :
    \A i \in DOMAIN w.out :
      IsData(w.out[i]) =>
        \E gp \in {w.out[i].gp, w.out[i].oend} :
          \E b \in {BytePosition(w.out[i], gp)} :
            b[1] /\ w.out[i].off = b[2]

\* C25, amended: the OFFSET of every data unit pushed is the time of its
\* OFFSET_END at the sample rate, in nanoseconds rounded down, which is the
\* unit's end time (timestamp plus duration) less the sub-granule offset;
\* the byte and sample counts have no part in it.
C25_OffsetIsTime ==
  \A w \in PushOutcomes :
    \A i \in DOMAIN w.out :
      IsData(w.out[i]) =>
        /\ w.out[i].off =
              gst_util_uint64_scale(w.out[i].oend, GST_SECOND, w.out[i].freq)
        /\ w.out[i].off = w.out[i].ts + w.out[i].dur - w.out[i].sub

\* a data buffer can push the packet of granule position 1024 under a
\* granule offset of 22050 at 44100 Hz: OFFSET is 23074 samples in time
C25_Witness ==
  \E w \in ChainOutcomes :
    \E i \in DOMAIN w.out :
      /\ IsData(w.out[i])
      /\ w.out[i].gp = 1024
      /\ w.out[i].goff = 22050
      /\ w.out[i].freq = 44100
      /\ w.out[i].sin > 0
      /\ w.out[i].bout > 0
      /\ w.out[i].off = 523219954

\* the position in the call trace of w of the gst_pad_push of unit w.out[i]
PushPosition(w, i) ==
  CHOOSE p \in TracePositions(w, {"gst_pad_push"}) :
    Cardinality({q \in TracePositions(w, {"gst_pad_push"}) : q <= p}) = i

\* whether the source pad has the streamheader caps when w.out[i] is pushed:
\* from before the call, or from a gst_pad_set_caps earlier in the call
CapsSetAt(w, i) ==
  \/ caps = "streamheader"
  \/ \E j \in TracePositions(w, {"gst_pad_set_caps"}) : j < PushPosition(w, i)

\* C26: the streamheader caps are set on the source pad before the first
\* header unit is pushed, every header unit carries them and the IN_CAPS
\* flag, and no data unit is pushed before the caps have been set.
C26_CapsBeforePackets ==
  \A w \in PushOutcomes :
    \A i \in DOMAIN w.out :
      /\ IsHeader(w.out[i]) =>
            /\ \E j \in TracePositions(w, {"gst_pad_set_caps"}) :
                  j < PushPosition(w, i)
            /\ w.out[i].caps = "streamheader"
            /\ w.out[i].incaps
      /\ IsData(w.out[i]) => CapsSetAt(w, i)

\* the mode a status message reports
MessageMode(msg) ==
  CASE msg[1] \in {"average_bitrate", "approximate_bitrate_vbr",
                   "bitrate_management"} -> "managed"
    [] msg[1] \in {"quality", "quality_constrained_vbr"} -> "vbr"
    [] OTHER -> "none"

\* C27: the status message every setup leaves reports bitrate-based encoding
\* only when the setup calls vorbis_encode_setup_managed and quality-based
\* encoding only when it calls vorbis_encode_setup_vbr, for every
\* configuration of bitrate, min_bitrate, max_bitrate, managed and
\* quality_set.
C27_MessageNamesMode ==
  Active =>
    \A c \in SetcapsCalls : \A w \in {SetcapsOf(c)} :
      /\ MessageMode(w.enc.last_message) = "managed" =>
            CallsOf(w, "vorbis_encode_setup_managed") = 1
      /\ MessageMode(w.enc.last_message) = "vbr" =>
            CallsOf(w, "vorbis_encode_setup_vbr") = 1

\* the sizes of the units handed to gst_pad_push, summed
RECURSIVE SumBytes(_)
SumBytes(units) ==
  IF units = <<>> THEN 0 ELSE units[1].bytes + SumBytes(Tail(units))

\* the counters after a handler with outcome w: samples_in has grown by
\* samples and bytes_out by the sizes of all the units of w
Accounted(w, samples) ==
  /\ w.enc.samples_in = enc.samples_in + samples
  /\ w.enc.bytes_out = enc.bytes_out + SumBytes(w.out)

\* C28: samples_in grows by floor(size / (channels * 4)) on every data
\* buffer whose samples are submitted to the backend, and by nothing on a
\* buffer that is refused or whose header push fails; bytes_out grows by
\* the size of every header and data unit handed to gst_pad_push, whatever
\* the push returns; no other operation changes either counter.  Both
\* start from zero (InitEnc), so each is the sum over the operations so far.
C28_Accounting ==
  /\ Active =>
        /\ \A c \in ChainCallsWithBacklog : \A w \in {ChainOf(c)} :
              \E submitted \in {CallsOf(w, "vorbis_analysis_buffer") = 1} :
                /\ submitted <=>
                      enc.setup /\ (enc.header_sent \/ c.hfail = 0)
                /\ Accounted(w, IF submitted
                                THEN c.size \div (enc.channels * 4) ELSE 0)
        /\ \A d \in DrainsWithBacklog : Accounted(EosOf(d), 0)
        /\ \A c \in SetcapsCalls : Accounted(SetcapsOf(c), 0)
        /\ \A type \in {"TAG", "NEWSEGMENT"} :
              Accounted(gst_vorbisenc_sink_event(World, type, <<>>, <<0, "OK">>),
                        0)
  /\ \A transition \in DOMAIN Transitions :
        Accounted(gst_vorbisenc_change_state(World, transition), 0)

\* a stereo session has taken one sample and pushed its headers and one
\* data packet, and a further buffer can have its data push refused: the
\* refused packet is counted
C28_Witness ==
  /\ Active
  /\ enc.channels = 2
  /\ enc.samples_in = 1
  /\ enc.bytes_out = 4
  /\ \E c \in ChainCalls : \E w \in {ChainOf(c)} :
        /\ w.ret \notin {"OK", "UNEXPECTED"}
        /\ Len(w.out) = 1
        /\ w.enc.samples_in = 2
        /\ w.enc.bytes_out = 5

\* the fields of the element that hold its configuration
ConfigFields ==
  {"bitrate", "min_bitrate", "max_bitrate", "quality", "quality_set",
   "managed"}

\* data buffers whose pushes all succeed and that draw no packet
PlainBuffers ==
  {[ts |-> t, size |-> z, hfail |-> 0, hret |-> "OK", pkts |-> <<>>,
    fret |-> <<0, "OK">>] : t \in Timestamps, z \in BufSizes}

\* C29: assigning bitrate, min_bitrate, max_bitrate, quality or managed
\* changes configuration fields only: setup, header_sent, the granule clock,
\* samples_in, bytes_out and the backend handles with the mode they were
\* configured in are as before, nothing is pushed and no backend call is
\* made; and a data buffer that follows the assignment in a set-up session
\* sets up nothing and leaves the configured backend as it was.
C29_PropertiesOnlyConfigure ==
  \E outcomes \in {PropertyOutcomes} :
    /\ \A w \in outcomes :
          /\ \A f \in (DOMAIN enc) \ ConfigFields : w.enc[f] = enc[f]
          /\ w.out = <<>>
          /\ w.caps = caps
          /\ \A i \in DOMAIN w.tr : w.tr[i].c = "g_object_notify_managed"
    /\ (Active /\ enc.setup) =>
          \A e \in {w.enc : w \in outcomes} :
            \A b \in PlainBuffers : \A x \in {ChainFrom(e, b)} :
              /\ x.enc.setup
              /\ x.enc.vi = enc.vi
              /\ CallsOf(x, "vorbis_encode_setup_vbr") = 0
              /\ CallsOf(x, "vorbis_encode_setup_managed") = 0

\* a session set up in the quality mode under the default configuration has
\* sent its headers and taken data; a bitrate and managed have been assigned
\* since (the status message is still that of the setup) and the backend is
\* still in the quality mode
C29_Witness ==
  /\ Active /\ enc.setup /\ enc.header_sent
  /\ enc.samples_in > 0
  /\ enc.vi.live /\ enc.vi.mode = "vbr"
  /\ enc.last_message[1] = "quality"
  /\ enc.bitrate = 128000
  /\ enc.managed

\* the session state the steps of a data-buffer call rely on
SessionState(e) == <<e.setup, e.header_sent, e.vi, e.vd, e.vb>>

\* C30: while a call of gst_vorbisenc_chain is between two steps of its
\* handshake or drain loop, no step of another thread (a step that is not
\* the call's own) releases or re-initialises the backend handles or
\* changes setup or header_sent.
C30_Serialized ==
  [][(call.pc \in {"headers", "submit", "drain"} /\ call' = call) =>
       SessionState(enc') = SessionState(enc)]_vars

====
